---------------------------- MODULE Spec2Model ----------------------------
(***************************************************************************)
(* The interview-practice application of src/app.py as a state machine.   *)
(*                                                                         *)
(* The program is a Streamlit script: every user interaction (a button, a  *)
(* selection, captured audio) and every st.rerun() runs the script once    *)
(* from the top over st.session_state.  The model keeps st.session_state   *)
(* (the progress mapping and the per-question keys), and has one action    *)
(* per script run: the run of a clicked button is the handler of that      *)
(* button; a handler that ends in st.rerun() leaves `rerun` set, and the   *)
(* next step is then the script run that re-renders the page.              *)
(*                                                                         *)
(* A text (a transcript, an answer, a line of the evaluation service's     *)
(* response) is a sequence of symbols, each symbol a string: " " is        *)
(* whitespace, "," a comma, "0".."9" digits, "SCORE:" and the other three  *)
(* labels are the labels, anything else is a run of other characters.      *)
(* A Python dict is a function whose DOMAIN is the set of its keys.        *)
(***************************************************************************)
EXTENDS Integers, Sequences, FiniteSets, TLC

VARIABLES
    progress,        \* st.session_state.progress
    session,         \* the per-question keys of st.session_state
    api_configured,  \* st.session_state.api_configured
    page,            \* st.session_state.page
    selected,        \* the id chosen in the "question_selector" selectbox
    rerun,           \* TRUE between a handler's st.rerun() and the re-run
    last,            \* history: the operation of the latest script run
    recordings,      \* history: recordings started since progress was all reset
    other,           \* the second question this session works on
    resp,            \* evaluation check: what the service's call does
    draw,            \* evaluation check: the random generator's draw
    result           \* evaluation check: what evaluate_with_gpt returned

vars == <<progress, session, api_configured, page, selected, rerun, last,
          recordings, other, resp, draw, result>>

evalVars == <<other, resp, draw, result>>

sessionVars ==
    <<progress, session, api_configured, page, selected, rerun, last, recordings>>

-----------------------------------------------------------------------------
(* Bounds of the model *)

\* Recordings started between two resets of all progress.
MaxRecordings == 2

\* The random generator's draws in the evaluation check: 0..MaxEntropy.
MaxEntropy == 41

\* Lines of a response text in the evaluation check.
MaxLines == 3

-----------------------------------------------------------------------------
(* Dictionaries and sequences *)

Put(d, k, v) == [x \in (DOMAIN d) \cup {k} |-> IF x = k THEN v ELSE d[x]]

Del(d, K) == [x \in (DOMAIN d) \ K |-> d[x]]

EmptyDict == [x \in {} |-> 0]

Range(s) == {s[i] : i \in DOMAIN s}

\* [x for x in s if Keep(x)]
RECURSIVE FilterOut(_, _)
FilterOut(s, x) ==
    IF s = <<>> THEN <<>>
    ELSE IF Head(s) = x THEN FilterOut(Tail(s), x)
    ELSE <<Head(s)>> \o FilterOut(Tail(s), x)

RECURSIVE SumSeq(_)
SumSeq(s) == IF s = <<>> THEN 0 ELSE Head(s) + SumSeq(Tail(s))

\* sum(d.values())
RECURSIVE SumOver(_, _)
SumOver(d, K) ==
    IF K = {} THEN 0
    ELSE LET k == CHOOSE x \in K : TRUE IN d[k] + SumOver(d, K \ {k})

SumValues(d) == SumOver(d, DOMAIN d)

Count(s, x) == Cardinality({i \in DOMAIN s : s[i] = x})

-----------------------------------------------------------------------------
(* Python's string operations, on texts *)

WS == " "

RECURSIVE LStrip(_)
LStrip(t) == IF t # <<>> /\ Head(t) = WS THEN LStrip(Tail(t)) ELSE t

RECURSIVE RStrip(_)
RStrip(t) ==
    IF t # <<>> /\ t[Len(t)] = WS THEN RStrip(SubSeq(t, 1, Len(t) - 1)) ELSE t

\* str.strip()
Strip(t) == RStrip(LStrip(t))

\* bool(str): the empty string is falsy
Truthy(t) == t # <<>>

\* str.startswith(label), a label being one symbol
StartsWith(t, label) == t # <<>> /\ Head(t) = label

\* str.replace(label, ''): every occurrence goes
Replace(t, label) == FilterOut(t, label)

\* str.split(sep): the pieces between the separators, empty pieces kept
RECURSIVE SplitOn(_, _, _)
SplitOn(t, sep, cur) ==
    IF t = <<>> THEN <<cur>>
    ELSE IF Head(t) = sep THEN <<cur>> \o SplitOn(Tail(t), sep, <<>>)
    ELSE SplitOn(Tail(t), sep, Append(cur, Head(t)))

Split(t, sep) == SplitOn(t, sep, <<>>)

\* str.split(): the runs of non-whitespace
SplitWords(t) == FilterOut(Split(t, WS), <<>>)

\* [s.strip() for s in text.split(',') if s.strip()]
RECURSIVE StripItems(_)
StripItems(items) ==
    IF items = <<>> THEN <<>>
    ELSE IF Strip(Head(items)) # <<>>
         THEN <<Strip(Head(items))>> \o StripItems(Tail(items))
         ELSE StripItems(Tail(items))

Digits == {"0", "1", "2", "3", "4", "5", "6", "7", "8", "9"}

DigitVal(c) ==
    CASE c = "0" -> 0 [] c = "1" -> 1 [] c = "2" -> 2 [] c = "3" -> 3
      [] c = "4" -> 4 [] c = "5" -> 5 [] c = "6" -> 6 [] c = "7" -> 7
      [] c = "8" -> 8 [] c = "9" -> 9

RECURSIVE DigitsVal(_, _)
DigitsVal(t, acc) ==
    IF t = <<>> THEN acc ELSE DigitsVal(Tail(t), 10 * acc + DigitVal(Head(t)))

\* int(str) accepts surrounding whitespace, one sign and then digits only
IntBody(t) == IF t # <<>> /\ Head(t) \in {"+", "-"} THEN Tail(t) ELSE t

IntOk(t) ==
    LET b == IntBody(Strip(t)) IN b # <<>> /\ \A i \in DOMAIN b : b[i] \in Digits

IntVal(t) ==
    LET s == Strip(t)
        v == DigitsVal(IntBody(s), 0)
    IN IF Head(s) = "-" THEN 0 - v ELSE v

\* str(n) for n >= 0, as a sequence of digits 0..9
RECURSIVE Str(_)
Str(n) == IF n < 10 THEN <<n>> ELSE Str(n \div 10) \o <<n % 10>>

IsPrefix(p, s) == Len(p) <= Len(s) /\ SubSeq(s, 1, Len(p)) = p

\* f'<family>_{k}'.startswith(f'<family>_{qid}')
KeyStartsWith(k, qid) == IsPrefix(Str(qid), Str(k))

-----------------------------------------------------------------------------
(* The question bank *)

Question(id, category, difficulty, t1, t2) ==
    [id |-> id, category |-> category, difficulty |-> difficulty,
     demo_transcripts |-> <<<<t1>>, <<t2>>>>]

\* Each demo transcript is kept as one symbol, named by its opening words.
QUESTIONS == <<
    Question(1, "Data Structures", "Medium",
             "Arrays and linked lists are both", "The key difference lies in"),
    Question(2, "Algorithms", "Easy",
             "Binary search has O(log n)", "Binary search operates in O(log n)"),
    Question(3, "System Design", "Hard",
             "A URL shortener needs several", "Key components include: 1) Encoding"),
    Question(4, "Algorithms", "Medium",
             "Hash tables map keys to values", "A hash table uses a hash function"),
    Question(5, "Data Structures", "Easy",
             "Stacks follow LIFO", "Key difference: access order."),
    Question(6, "System Design", "Hard",
             "A chat app requires: 1) WebSocket", "Core components include: client-server"),
    Question(7, "Behavioral", "Medium",
             "I worked on a legacy system", "The most challenging project involved"),
    Question(8, "Algorithms", "Medium",
             "Dynamic programming solves complex", "DP optimizes recursive solutions"),
    Question(9, "Data Structures", "Hard",
             "B-trees are balanced m-way trees", "Key differences: B-trees have multiple"),
    Question(10, "Behavioral", "Medium",
             "I handle conflicts through open", "My approach: 1) Address issues early")
>>

QuestionIds == {QUESTIONS[i].id : i \in DOMAIN QUESTIONS}

\* A session of the model works on two questions: the first of the bank,
\* which the selectbox starts on, and `other`: the Easy question 2, or 10,
\* whose decimal form starts with the first one's.
OtherIds == {2, 10}

ActiveIds == {QUESTIONS[1].id, other}

\* QUESTIONS[selected_index] / QUESTIONS[int(qid)-1]
QuestionOf(id) == QUESTIONS[id]

-----------------------------------------------------------------------------
(* The random module: `u` is the generator's draw *)

\* random.randint(a, b): an integer of a..b
RandInt(a, b, u) == a + (u % (b - a + 1))

\* random.choice(seq): an element of seq
RandChoice(seq, u) == seq[(u % Len(seq)) + 1]

Entropy == 0..MaxEntropy

\* The draws of a session: both ends of every range, both transcripts.
SessionEntropy == {0, 41}

-----------------------------------------------------------------------------
(* get_question_demo_transcript *)

GenericTranscript(category) ==
    CASE category = "Data Structures" -> <<"Data structures organize and store data efficiently.">>
      [] category = "Algorithms" -> <<"Algorithms are step-by-step procedures for solving problems.">>
      [] category = "System Design" -> <<"System design involves creating scalable, reliable architectures.">>
      [] category = "Behavioral" -> <<"Behavioral questions assess soft skills and experience.">>
      [] OTHER -> <<"This is a demo transcript for a technical interview question.">>

\* Mutant of get_question_demo_transcript: the loop stops at the first
\* question that has transcripts, whatever its id.
get_question_demo_transcript_first(question_id, u) ==
    IF question_id \in QuestionIds
    THEN RandChoice(QUESTIONS[1].demo_transcripts, u)
    ELSE <<"This is a demo transcript for a technical interview question.">>

get_question_demo_transcript(question_id, u) ==
    IF question_id \in QuestionIds
    THEN LET q == CHOOSE x \in Range(QUESTIONS) : x.id = question_id
         IN IF q.demo_transcripts # <<>>
            THEN RandChoice(q.demo_transcripts, u)
            ELSE GenericTranscript(q.category)
    ELSE <<"This is a demo transcript for a technical interview question.">>

-----------------------------------------------------------------------------
(* get_demo_feedback *)

DemoFeedbackText(category) ==
    CASE category = "Data Structures" -> <<"Your understanding of data structures is basic.">>
      [] category = "Algorithms" -> <<"You explained the concept but need more detail.">>
      [] category = "System Design" -> <<"Good high-level thinking.">>
      [] category = "Behavioral" -> <<"Good personal example.">>
      [] OTHER -> <<"Good attempt.">>

\* Mutant of DemoBaseScore: the Hard range is forgotten.
DemoBaseScore_no_hard(difficulty, u) ==
    IF difficulty = "Easy" THEN RandInt(70, 90, u) ELSE RandInt(60, 80, u)

DemoBaseScore(difficulty, u) ==
    IF difficulty = "Easy" THEN RandInt(70, 90, u)
    ELSE IF difficulty = "Medium" THEN RandInt(60, 80, u)
    ELSE RandInt(50, 70, u)

get_demo_feedback(question, u) ==
    [score |-> DemoBaseScore(question.difficulty, u),
     strengths |-> <<<<"Clear explanation">>, <<"Good structure">>>>,
     improvements |-> <<<<"Add more examples">>, <<"Be more concise">>>>,
     feedback |-> DemoFeedbackText(question.category)]

-----------------------------------------------------------------------------
(* evaluate_with_gpt: the parse of the service's response *)

DefaultScore == 50

InitialResult ==
    [score |-> DefaultScore, strengths |-> <<>>, improvements |-> <<>>,
     feedback |-> <<>>]

\* int(score_text) under try/except
ParseScore(line) ==
    LET score_text == Strip(Replace(line, "SCORE:"))
    IN IF IntOk(score_text) THEN IntVal(score_text) ELSE DefaultScore

\* [s.strip() for s in text.split(',') if s.strip()]
ParseList(line, label) == StripItems(Split(Strip(Replace(line, label)), ","))

\* Mutant of ParseLine: a score that does not parse discards the whole result.
ParseLine_bad_score_resets(res, raw) ==
    LET line == Strip(raw)
    IN IF StartsWith(line, "SCORE:")
       THEN IF IntOk(Strip(Replace(line, "SCORE:")))
            THEN [res EXCEPT !.score = ParseScore(line)]
            ELSE InitialResult
       ELSE IF StartsWith(line, "STRENGTHS:")
       THEN [res EXCEPT !.strengths = ParseList(line, "STRENGTHS:")]
       ELSE IF StartsWith(line, "IMPROVEMENTS:")
       THEN [res EXCEPT !.improvements = ParseList(line, "IMPROVEMENTS:")]
       ELSE IF StartsWith(line, "FEEDBACK:")
       THEN [res EXCEPT !.feedback = Strip(Replace(line, "FEEDBACK:"))]
       ELSE res

\* One pass of the loop over response_text.split('\n')
ParseLine(res, raw) ==
    LET line == Strip(raw)
    IN IF StartsWith(line, "SCORE:")
       THEN [res EXCEPT !.score = ParseScore(line)]
       ELSE IF StartsWith(line, "STRENGTHS:")
       THEN [res EXCEPT !.strengths = ParseList(line, "STRENGTHS:")]
       ELSE IF StartsWith(line, "IMPROVEMENTS:")
       THEN [res EXCEPT !.improvements = ParseList(line, "IMPROVEMENTS:")]
       ELSE IF StartsWith(line, "FEEDBACK:")
       THEN [res EXCEPT !.feedback = Strip(Replace(line, "FEEDBACK:"))]
       ELSE res

RECURSIVE ParseLines(_, _)
ParseLines(res, lines) ==
    IF lines = <<>> THEN res
    ELSE ParseLines(ParseLine(res, Head(lines)), Tail(lines))

DefaultStrengths == <<<<"Clear communication">>, <<"Good attempt">>>>

DefaultImprovements == <<<<"Add more technical details">>, <<"Be more specific">>>>

DefaultFeedback == <<"Good effort. Consider providing more specific technical details">>

FillDefaults(res) ==
    [score |-> res.score,
     strengths |-> IF res.strengths = <<>> THEN DefaultStrengths ELSE res.strengths,
     improvements |-> IF res.improvements = <<>> THEN DefaultImprovements
                      ELSE res.improvements,
     feedback |-> IF res.feedback = <<>> THEN DefaultFeedback ELSE res.feedback]

ParseResponse(lines) == FillDefaults(ParseLines(InitialResult, lines))

\* What the call to the evaluation service does: it raises, or it returns a
\* message whose content is a text (lines) or None.
Raises(outcome) == outcome.kind = "raise" \/ outcome.kind = "none"

\* Mutant of evaluate_with_gpt: a failed call gives the parser's defaults.
evaluate_with_gpt_fails_default(configured, question, answer, outcome, u) ==
    IF ~configured THEN get_demo_feedback(question, u)
    ELSE IF Raises(outcome) THEN FillDefaults(InitialResult)
    ELSE ParseResponse(outcome.lines)

\* evaluate_with_gpt(question, answer); the prompt only feeds the service.
evaluate_with_gpt(configured, question, answer, outcome, u) ==
    IF ~configured THEN get_demo_feedback(question, u)
    ELSE IF Raises(outcome) THEN get_demo_feedback(question, u)
    ELSE ParseResponse(outcome.lines)

-----------------------------------------------------------------------------
(* transcribe_audio *)

\* get_audio_bytes(audio_data): None for None, the bytes otherwise
get_audio_bytes(audio_data) == IF audio_data = "None" THEN "None" ELSE audio_data

\* Mutant of transcribe_audio: a failed call gives an empty text.
transcribe_audio_fails_empty(configured, audio_data, question_id, outcome, u) ==
    IF ~configured
    THEN get_question_demo_transcript(question_id, u)
    ELSE IF get_audio_bytes(audio_data) = "None" \/ outcome.kind = "raise"
    THEN <<>>
    ELSE outcome.text

\* What the call to the speech-to-text service does: it raises, or it
\* returns a transcript whose text is outcome.text.
transcribe_audio(configured, audio_data, question_id, outcome, u) ==
    IF ~configured
    THEN get_question_demo_transcript(question_id, u)
    ELSE IF get_audio_bytes(audio_data) = "None" \/ outcome.kind = "raise"
    THEN get_question_demo_transcript(question_id, u)
    ELSE outcome.text

\* The temporary files that a call of transcribe_audio leaves behind: the
\* live path writes the bytes to one file (delete=False) before the call,
\* and unlinks it after the call returned.
TempFilesLeft(configured, audio_data, outcome) ==
    IF ~configured \/ get_audio_bytes(audio_data) = "None" THEN {}
    ELSE LET created == {"tmp_path"}
         IN IF outcome.kind = "raise" THEN created ELSE created \ {"tmp_path"}

-----------------------------------------------------------------------------
(* st.session_state *)

EmptyProgress ==
    [completed |-> <<>>, scores |-> EmptyDict, answers |-> EmptyDict,
     transcripts |-> EmptyDict, evaluations |-> EmptyDict]

\* The keys audio_transcript_<q>, text_answer_<q>, last_audio_<q>,
\* recording_active_<q>, record_count_<q> and evaluation_<q>, by family.
EmptySession ==
    [audio_transcript |-> EmptyDict, text_answer |-> EmptyDict,
     last_audio |-> EmptyDict, recording_active |-> EmptyDict,
     record_count |-> EmptyDict, evaluation |-> EmptyDict]

\* dict.get(k, default)
Get(d, k, default) == IF k \in DOMAIN d THEN d[k] ELSE default

\* clear_question_data(qid): of the families the model keeps, it looks for
\* all but evaluation_<q>, and it matches keys by prefix.
\* Mutants of clear_question_data: one forgets the completed list, one the
\* scores, one the answers.
ClearSessionKeys(s, qid) ==
    LET gone == {k \in QuestionIds : KeyStartsWith(k, qid)}
    IN [audio_transcript |-> Del(s.audio_transcript, gone),
        text_answer |-> Del(s.text_answer, gone),
        last_audio |-> Del(s.last_audio, gone),
        recording_active |-> Del(s.recording_active, gone),
        record_count |-> Del(s.record_count, gone),
        evaluation |-> s.evaluation]

clear_keeps_completed(p, s, qid) ==
    [p |-> [completed |-> p.completed,
            scores |-> Del(p.scores, {qid}),
            answers |-> Del(p.answers, {qid}),
            transcripts |-> Del(p.transcripts, {qid}),
            evaluations |-> Del(p.evaluations, {qid})],
     s |-> ClearSessionKeys(s, qid)]

clear_keeps_scores(p, s, qid) ==
    [p |-> [completed |-> FilterOut(p.completed, qid),
            scores |-> p.scores,
            answers |-> Del(p.answers, {qid}),
            transcripts |-> Del(p.transcripts, {qid}),
            evaluations |-> Del(p.evaluations, {qid})],
     s |-> ClearSessionKeys(s, qid)]

clear_keeps_answers(p, s, qid) ==
    [p |-> [completed |-> FilterOut(p.completed, qid),
            scores |-> Del(p.scores, {qid}),
            answers |-> p.answers,
            transcripts |-> Del(p.transcripts, {qid}),
            evaluations |-> Del(p.evaluations, {qid})],
     s |-> ClearSessionKeys(s, qid)]

clear_question_data(p, s, qid) ==
    LET gone == {k \in QuestionIds : KeyStartsWith(k, qid)}
    IN [p |-> [completed |-> FilterOut(p.completed, qid),
               scores |-> Del(p.scores, {qid}),
               answers |-> Del(p.answers, {qid}),
               transcripts |-> Del(p.transcripts, {qid}),
               evaluations |-> Del(p.evaluations, {qid})],
        s |-> [audio_transcript |-> Del(s.audio_transcript, gone),
               text_answer |-> Del(s.text_answer, gone),
               last_audio |-> Del(s.last_audio, gone),
               recording_active |-> Del(s.recording_active, gone),
               record_count |-> Del(s.record_count, gone),
               evaluation |-> s.evaluation]]

\* Mutant of reset_all_progress: the scores survive.
reset_all_keeps_scores(p, s) ==
    [p |-> [EmptyProgress EXCEPT !.scores = p.scores], s |-> EmptySession]

\* Every key but api_configured, openai_client, page and progress goes.
reset_all_progress(p, s) == [p |-> EmptyProgress, s |-> EmptySession]

-----------------------------------------------------------------------------
(* show_practice: what a run of the page does before its buttons *)

\* "Initialize session state keys if they don't exist"
\* Mutant of InitKeys: the text to evaluate starts as a canned answer.
InitKeys_prefilled(p, s, q) ==
    [s EXCEPT
       !.audio_transcript = IF q \in DOMAIN @ THEN @ ELSE Put(@, q, <<>>),
       !.text_answer = IF q \in DOMAIN @ THEN @ ELSE Put(@, q, <<"my answer">>),
       !.last_audio = IF q \in DOMAIN @ THEN @ ELSE Put(@, q, "None")]

InitKeys(p, s, q) ==
    LET existing_answer == Get(p.answers, q, <<>>)
    IN [s EXCEPT
          !.audio_transcript = IF q \in DOMAIN @ THEN @ ELSE Put(@, q, <<>>),
          !.text_answer = IF q \in DOMAIN @ THEN @ ELSE Put(@, q, existing_answer),
          !.last_audio = IF q \in DOMAIN @ THEN @ ELSE Put(@, q, "None")]

\* audio_recorder_component's first lines
RecorderInit(s, q) ==
    [s EXCEPT
       !.recording_active = IF q \in DOMAIN @ THEN @ ELSE Put(@, q, FALSE),
       !.record_count = IF q \in DOMAIN @ THEN @ ELSE Put(@, q, 0)]

\* The page down to the recorder and the transcribe section
RenderTop(p, s, configured, q) ==
    [p |-> p,
     s |-> IF configured THEN RecorderInit(InitKeys(p, s, q), q)
           ELSE InitKeys(p, s, q)]

\* "Save answer to progress when user transcribes"
SaveAnswer(p, s, q, existing_answer) ==
    LET final_answer == Get(s.text_answer, q, <<>>)
    IN IF Truthy(final_answer) /\ final_answer # existing_answer
       THEN [p EXCEPT !.answers = Put(@, q, final_answer)]
       ELSE p

\* "Check if we have existing evaluation in progress"
RestoreEvaluation(p, s, q) ==
    IF q \in DOMAIN p.evaluations THEN p
    ELSE IF q \in DOMAIN s.evaluation
    THEN [p EXCEPT !.evaluations = Put(@, q, s.evaluation[q])]
    ELSE p

\* The page from the final answer down to the evaluation section;
\* existing_answer was read at the top of the run.
RenderBottom(p, s, q, existing_answer) ==
    [p |-> RestoreEvaluation(SaveAnswer(p, s, q, existing_answer), s, q),
     s |-> s]

\* A whole run of show_practice in which no button is clicked
RenderPractice(p, s, configured, q) ==
    LET top == RenderTop(p, s, configured, q)
    IN RenderBottom(top.p, top.s, q, Get(p.answers, q, <<>>))

\* A run of the current page in which no button is clicked; only the
\* practice page writes.
RenderPage(p, s, configured, pg, q) ==
    IF pg = "practice" THEN RenderPractice(p, s, configured, q)
    ELSE [p |-> p, s |-> s]

-----------------------------------------------------------------------------
(* The summary of the sidebar and the dashboard *)

CompletedCount(p) == Len(p.completed)

AttemptedCount(p) == Cardinality(DOMAIN p.answers)

\* Mutant of AverageScore: the sum is divided by the number of answers.
AverageScore_per_attempted(p) ==
    IF DOMAIN p.scores = {} THEN [num |-> 0, den |-> 1]
    ELSE [num |-> SumValues(p.scores), den |-> Cardinality(DOMAIN p.answers)]

\* sum(scores.values()) / len(scores) as a fraction; 0 when there is no score
AverageScore(p) ==
    IF DOMAIN p.scores = {} THEN [num |-> 0, den |-> 1]
    ELSE [num |-> SumValues(p.scores), den |-> Cardinality(DOMAIN p.scores)]

Summary(p) ==
    [completed |-> CompletedCount(p), attempted |-> AttemptedCount(p),
     averageScore |-> AverageScore(p)]

\* The fourth metric of the dashboard: the score of the last entry of
\* progress['completed'], "Pending" (no score) when there are only answers,
\* "N/A" (no score) when there is nothing.
LastScore(p) ==
    IF p.completed # <<>>
    THEN [label |-> "Last Score",
          score |-> {Get(p.scores, p.completed[Len(p.completed)], 0)}]
    ELSE IF DOMAIN p.answers # {}
    THEN [label |-> "Last Attempt", score |-> {}]
    ELSE [label |-> "Last Score", score |-> {}]

\* "Quick Stats" of the sidebar: the two counts, and the average as a metric
\* that is there only when there is a score.
SidebarStats(p) ==
    [completed |-> Len(p.completed),
     attempted |-> Cardinality(DOMAIN p.answers),
     averageScore |-> IF DOMAIN p.scores # {} THEN {AverageScore(p)} ELSE {}]

-----------------------------------------------------------------------------
(* What the services answer in a session *)

\* The dashboard and the report only read the progress (they are the display
\* operators, defined on every state); navigation keeps the two other pages.
Pages == {"home", "practice"}

\* whisper: an empty text, a blank text, a spoken answer
SessionTranscripts == {<<>>, <<WS>>, <<"my answer">>}

TranscribeOutcomes ==
    {[kind |-> "raise", text |-> <<>>]}
      \cup {[kind |-> "text", text |-> t] : t \in SessionTranscripts}

\* gpt: a response whose score is above 100
SessionResponses ==
    {<<<<"SCORE:", WS, "1", "5", "0">>, <<"STRENGTHS:", WS, "clear">>>>}

EvalOutcomes ==
    {[kind |-> "raise", lines |-> <<>>]}
      \cup {[kind |-> "text", lines |-> r] : r \in SessionResponses}

\* The state of a question: Evaluated once it has a score, Recorded once it
\* has an answer.
StatusOf(p, q) ==
    IF q \in DOMAIN p.scores THEN "Evaluated"
    ELSE IF q \in DOMAIN p.answers THEN "Recorded"
    ELSE "NotAttempted"

\* The furthest state of any question
SessionStatus(p) ==
    IF DOMAIN p.scores # {} THEN "Evaluated"
    ELSE IF DOMAIN p.answers # {} THEN "Recorded"
    ELSE "NotAttempted"

\* History of a run: its operation, its question, the state the question
\* was in before it, and whether the value it stored differs from the one
\* stored before.
Op(name, q, was, diff) == [op |-> name, q |-> q, was |-> was, diff |-> diff]

Ran(name, q) == Op(name, q, StatusOf(progress, q), FALSE)

-----------------------------------------------------------------------------
(* The session *)

Init ==
    /\ progress = EmptyProgress
    /\ session = EmptySession
    /\ api_configured \in BOOLEAN
    /\ page = "home"
    /\ selected = QUESTIONS[1].id
    /\ rerun = FALSE
    /\ last = Op("start", 0, "NotAttempted", FALSE)
    /\ recordings = 0
    /\ other \in OtherIds
    /\ resp = [kind |-> "raise", lines |-> <<>>]
    /\ draw = 0
    /\ result = [done |-> FALSE, value |-> InitialResult]

\* The state a run leaves: st is [p |-> progress, s |-> session].
Leave(st, again, op) ==
    /\ progress' = st.p
    /\ session' = st.s
    /\ rerun' = again
    /\ last' = op

\* The buttons of a page can be clicked once the page has been rendered.
OnPractice == page = "practice" /\ ~rerun

\* The run that st.rerun() asks for
Rerun ==
    /\ rerun
    /\ Leave(RenderPage(progress, session, api_configured, page, selected),
             FALSE, Ran("render", selected))
    /\ UNCHANGED <<api_configured, page, selected, recordings, evalVars>>

\* The sidebar's radio
Navigate(pg) ==
    /\ ~rerun
    /\ pg # page
    /\ page' = pg
    /\ Leave(RenderPage(progress, session, api_configured, pg, selected),
             FALSE, Ran("render", selected))
    /\ UNCHANGED <<api_configured, selected, recordings, evalVars>>

\* "Start Practicing Now": the page is set and the script re-run
StartPracticing ==
    /\ ~rerun
    /\ page = "home"
    /\ page' = "practice"
    /\ Leave([p |-> progress, s |-> session], TRUE, Ran("page", selected))
    /\ UNCHANGED <<api_configured, selected, recordings, evalVars>>

\* The selectbox "question_selector"
SelectQuestion(q) ==
    /\ OnPractice
    /\ q # selected
    /\ selected' = q
    /\ Leave(RenderPractice(progress, session, api_configured, q),
             FALSE, Ran("render", q))
    /\ UNCHANGED <<api_configured, page, recordings, evalVars>>

\* A valid key is entered in the sidebar: the script's top sets
\* st.session_state.api_configured, and the page is rendered.
ConfigureApi ==
    /\ ~rerun
    /\ ~api_configured
    /\ api_configured' = TRUE
    /\ Leave(RenderPage(progress, session, TRUE, page, selected),
             FALSE, Ran("render", selected))
    /\ UNCHANGED <<page, selected, recordings, evalVars>>

\* "Reset All Progress" in the sidebar; the selectbox's key goes too.
ResetAll ==
    /\ ~rerun
    /\ selected' = QUESTIONS[1].id
    /\ Leave(reset_all_progress(progress, session), TRUE, Op("reset_all", 0, SessionStatus(progress), FALSE))
    /\ recordings' = 0
    /\ UNCHANGED <<api_configured, page, evalVars>>

-----------------------------------------------------------------------------
(* The practice page's buttons, for the selected question *)

\* "Start Recording"
StartRecording ==
    LET q == selected
        top == RenderTop(progress, session, api_configured, q)
    IN /\ OnPractice /\ api_configured
       /\ top.s.last_audio[q] = "None"
       /\ ~top.s.recording_active[q]
       /\ recordings < MaxRecordings
       /\ recordings' = recordings + 1
       /\ Leave([p |-> top.p,
                 s |-> [top.s EXCEPT !.recording_active[q] = TRUE,
                                     !.record_count[q] = @ + 1]],
                TRUE, Ran("start_recording", q))
       /\ UNCHANGED <<api_configured, page, selected, evalVars>>

\* Mutant of AudioCaptured: the recorder stays active after the capture.
AudioCaptured_stays_active ==
    LET q == selected
        top == RenderTop(progress, session, api_configured, q)
    IN /\ OnPractice /\ api_configured
       /\ top.s.last_audio[q] = "None"
       /\ top.s.recording_active[q]
       /\ Leave([p |-> top.p,
                 s |-> [top.s EXCEPT !.last_audio[q] = "audio"]],
                TRUE, Ran("audio", q))
       /\ UNCHANGED <<api_configured, page, selected, recordings, evalVars>>

\* st.audio_input returns the recording
AudioCaptured ==
    LET q == selected
        top == RenderTop(progress, session, api_configured, q)
    IN /\ OnPractice /\ api_configured
       /\ top.s.last_audio[q] = "None"
       /\ top.s.recording_active[q]
       /\ Leave([p |-> top.p,
                 s |-> [top.s EXCEPT !.last_audio[q] = "audio",
                                     !.recording_active[q] = FALSE]],
                TRUE, Ran("audio", q))
       /\ UNCHANGED <<api_configured, page, selected, recordings, evalVars>>

\* "Cancel Recording"
CancelRecording ==
    LET q == selected
        top == RenderTop(progress, session, api_configured, q)
    IN /\ OnPractice /\ api_configured
       /\ top.s.last_audio[q] = "None"
       /\ top.s.recording_active[q]
       /\ Leave([p |-> top.p,
                 s |-> [top.s EXCEPT !.recording_active[q] = FALSE]],
                TRUE, Ran("cancel", q))
       /\ UNCHANGED <<api_configured, page, selected, recordings, evalVars>>

\* "Re-record"
ReRecord ==
    LET q == selected
        top == RenderTop(progress, session, api_configured, q)
    IN /\ OnPractice /\ api_configured
       /\ top.s.last_audio[q] # "None"
       /\ recordings < MaxRecordings
       /\ recordings' = recordings + 1
       /\ Leave([p |-> top.p,
                 s |-> [top.s EXCEPT !.last_audio[q] = "None",
                                     !.recording_active[q] = TRUE,
                                     !.record_count[q] = @ + 1]],
                TRUE, Ran("rerecord", q))
       /\ UNCHANGED <<api_configured, page, selected, evalVars>>

\* "Remove Audio"
RemoveAudio ==
    LET q == selected
        top == RenderTop(progress, session, api_configured, q)
    IN /\ OnPractice /\ api_configured
       /\ top.s.last_audio[q] # "None"
       /\ Leave([p |-> top.p,
                 s |-> [top.s EXCEPT !.last_audio[q] = "None",
                                     !.recording_active[q] = FALSE]],
                TRUE, Ran("remove_audio", q))
       /\ UNCHANGED <<api_configured, page, selected, recordings, evalVars>>

\* Mutant of StoreTranscript: a new transcript discards the evaluation.
StoreTranscript_invalidates(top, q, transcript, existing_answer) ==
    IF Truthy(transcript)
    THEN [p |-> [top.p EXCEPT !.answers = Put(@, q, transcript),
                              !.scores = Del(@, {q}),
                              !.evaluations = Del(@, {q}),
                              !.completed = FilterOut(@, q)],
          s |-> [top.s EXCEPT !.audio_transcript[q] = transcript,
                              !.text_answer[q] = transcript],
          again |-> TRUE]
    ELSE [p |-> RenderBottom(top.p, top.s, q, existing_answer).p,
          s |-> top.s,
          again |-> FALSE]

\* The transcribe button's handler on the state `top`: a truthy transcript
\* is stored and the script re-run; otherwise the run goes on down the page.
StoreTranscript(top, q, transcript, existing_answer) ==
    IF Truthy(transcript)
    THEN [p |-> [top.p EXCEPT !.answers = Put(@, q, transcript)],
          s |-> [top.s EXCEPT !.audio_transcript[q] = transcript,
                              !.text_answer[q] = transcript],
          again |-> TRUE]
    ELSE [p |-> RenderBottom(top.p, top.s, q, existing_answer).p,
          s |-> top.s,
          again |-> FALSE]

\* "Transcribe Audio"
Transcribe(outcome, u) ==
    LET q == selected
        top == RenderTop(progress, session, api_configured, q)
        transcript == transcribe_audio(api_configured, top.s.last_audio[q],
                                       q, outcome, u)
        st == StoreTranscript(top, q, transcript, Get(progress.answers, q, <<>>))
    IN /\ OnPractice /\ api_configured
       /\ top.s.last_audio[q] # "None"
       /\ Leave(st, st.again,
                Op("transcribe", q, StatusOf(progress, q),
                   Get(st.p.answers, q, <<>>) # Get(progress.answers, q, <<>>)))
       /\ UNCHANGED <<api_configured, page, selected, recordings, evalVars>>

\* Mutant of RecordEvaluation: the id is appended without the membership test.
RecordEvaluation_appends(st, q, final_answer, ai_eval) ==
    LET overall_score == ai_eval.score
        eval_data == [overall_score |-> overall_score,
                      word_count |-> Len(SplitWords(final_answer)),
                      feedback |-> ai_eval]
    IN [p |-> [st.p EXCEPT
                 !.answers = Put(@, q, final_answer),
                 !.completed = Append(@, q),
                 !.scores = Put(@, q, overall_score),
                 !.evaluations = Put(@, q, eval_data)],
        s |-> [st.s EXCEPT !.evaluation = Put(@, q, eval_data)]]

\* Mutant of RecordEvaluation: the handler removes the answer it evaluates.
RecordEvaluation_no_answer(st, q, final_answer, ai_eval) ==
    LET overall_score == ai_eval.score
        eval_data == [overall_score |-> overall_score,
                      word_count |-> Len(SplitWords(final_answer)),
                      feedback |-> ai_eval]
    IN [p |-> [st.p EXCEPT
                 !.answers = Del(@, {q}),
                 !.completed = IF q \in Range(@) THEN @ ELSE Append(@, q),
                 !.scores = Put(@, q, overall_score),
                 !.evaluations = Put(@, q, eval_data)],
        s |-> [st.s EXCEPT !.evaluation = Put(@, q, eval_data)]]

\* The evaluate button's handler, on the rendered state st
RecordEvaluation(st, q, final_answer, ai_eval) ==
    LET overall_score == ai_eval.score
        eval_data == [overall_score |-> overall_score,
                      word_count |-> Len(SplitWords(final_answer)),
                      feedback |-> ai_eval]
    IN [p |-> [st.p EXCEPT
                 !.answers = Put(@, q, final_answer),
                 !.completed = IF q \in Range(@) THEN @ ELSE Append(@, q),
                 !.scores = Put(@, q, overall_score),
                 !.evaluations = Put(@, q, eval_data)],
        s |-> [st.s EXCEPT !.evaluation = Put(@, q, eval_data)]]

\* Mutant of CanEvaluate: the button is there for any non-empty text.
CanEvaluate_any_text(final_answer) == Truthy(final_answer)

\* The evaluate button is there for a final answer that is not blank.
CanEvaluate(final_answer) == Truthy(final_answer) /\ Truthy(Strip(final_answer))

\* "Evaluate Answer"
Evaluate(outcome, u) ==
    LET q == selected
        st == RenderPractice(progress, session, api_configured, q)
        final_answer == Get(st.s.text_answer, q, <<>>)
        ai_eval == evaluate_with_gpt(api_configured, QuestionOf(q),
                                     final_answer, outcome, u)
    IN /\ OnPractice
       /\ CanEvaluate(final_answer)
       /\ Leave(RecordEvaluation(st, q, final_answer, ai_eval),
                TRUE,
                Op("evaluate", q, StatusOf(progress, q),
                   q \in DOMAIN progress.scores
                     /\ progress.scores[q] # ai_eval.score))
       /\ UNCHANGED <<api_configured, page, selected, recordings, evalVars>>

\* "Reset This Question"
ResetQuestion ==
    LET q == selected
        st == RenderPractice(progress, session, api_configured, q)
    IN /\ OnPractice
       /\ Leave(clear_question_data(st.p, st.s, q), TRUE, Ran("reset", q))
       /\ UNCHANGED <<api_configured, page, selected, recordings, evalVars>>

Next ==
    \/ Rerun
    \/ \E pg \in Pages : Navigate(pg)
    \/ StartPracticing
    \/ \E q \in ActiveIds : SelectQuestion(q)
    \/ ConfigureApi
    \/ ResetAll
    \/ StartRecording
    \/ AudioCaptured
    \/ CancelRecording
    \/ ReRecord
    \/ RemoveAudio
    \/ \E o \in TranscribeOutcomes, u \in SessionEntropy : Transcribe(o, u)
    \/ \E o \in EvalOutcomes, u \in SessionEntropy : Evaluate(o, u)
    \/ ResetQuestion

Spec == Init /\ [][Next]_vars

-----------------------------------------------------------------------------
(* The evaluation check: evaluate_with_gpt and get_demo_feedback called on *)
(* every question, draw and response text of the sets below                *)

\* Lines the service may send, each with what it says.
ScoreLines ==
    {[raw |-> <<"SCORE:", WS, "8", "5">>, score |-> 85],
     [raw |-> <<WS, "SCORE:", "7", WS>>, score |-> 7],
     [raw |-> <<"SCORE:", WS, "1", "5", "0">>, score |-> 150],
     [raw |-> <<"SCORE:", WS, "-", "5">>, score |-> -5],
     [raw |-> <<"SCORE:">>, score |-> DefaultScore],
     [raw |-> <<"SCORE:", WS, "8", "5", "/100">>, score |-> DefaultScore]}

StrengthLines ==
    {[raw |-> <<"STRENGTHS:", WS, "clear", ",", WS, "deep">>,
      items |-> <<<<"clear">>, <<"deep">>>>],
     [raw |-> <<"STRENGTHS:", WS, ",", WS>>, items |-> DefaultStrengths]}

ImprovementLines ==
    {[raw |-> <<"IMPROVEMENTS:", "more", WS, "detail">>,
      items |-> <<<<"more", WS, "detail">>>>],
     [raw |-> <<"IMPROVEMENTS:">>, items |-> DefaultImprovements]}

FeedbackLines ==
    {[raw |-> <<"FEEDBACK:", WS, "fine", WS, "work">>,
      text |-> <<"fine", WS, "work">>]}

\* An empty line, and a line whose label is not at its start
OtherLines == {<<>>, <<"Here", WS, "SCORE:", WS, "9">>}

Raws(table) == {l.raw : l \in table}

CheckLines ==
    Raws(ScoreLines) \cup Raws(StrengthLines) \cup Raws(ImprovementLines)
      \cup Raws(FeedbackLines) \cup OtherLines

SeqsUpTo(S, n) == UNION {[1..k -> S] : k \in 0..n}

CheckOutcomes ==
    {[kind |-> "none", lines |-> <<>>]}
      \cup {[kind |-> "text", lines |-> r] : r \in SeqsUpTo(CheckLines, MaxLines)}

Pending == [done |-> FALSE, value |-> InitialResult]

\* The answers handed to evaluate_with_gpt: empty, one space, a few words
CheckAnswers == {<<>>, <<WS>>, <<"my answer">>}

EvalInit ==
    /\ progress = EmptyProgress
    /\ page = "home"
    /\ rerun = FALSE
    /\ last = Op("start", 0, "NotAttempted", FALSE)
    /\ recordings = 0
    /\ other = 2
    /\ result = Pending
    /\ \/ /\ resp = [kind |-> "raise", lines |-> <<>>]
          /\ selected \in QuestionIds
          /\ draw \in Entropy
          /\ api_configured \in BOOLEAN
       \/ /\ resp \in CheckOutcomes
          /\ selected = QUESTIONS[1].id
          /\ draw = 0
          /\ api_configured = TRUE
    /\ \E answer \in CheckAnswers :
          session = [EmptySession EXCEPT !.text_answer = Put(@, selected, answer)]

CallEvaluate ==
    /\ ~result.done
    /\ result' = [done |-> TRUE,
                  value |-> evaluate_with_gpt(api_configured, QuestionOf(selected),
                                              session.text_answer[selected],
                                              resp, draw)]
    /\ last' = Op("evaluate_with_gpt", selected, "NotAttempted", FALSE)
    /\ UNCHANGED <<progress, session, api_configured, page, selected, rerun,
                   recordings, other, resp, draw>>

CallDemoFeedback ==
    /\ ~result.done
    /\ result' = [done |-> TRUE,
                  value |-> get_demo_feedback(QuestionOf(selected), draw)]
    /\ last' = Op("get_demo_feedback", selected, "NotAttempted", FALSE)
    /\ UNCHANGED <<progress, session, api_configured, page, selected, rerun,
                   recordings, other, resp, draw>>

EvalNext == CallEvaluate \/ CallDemoFeedback

EvalSpec == EvalInit /\ [][EvalNext]_vars

-----------------------------------------------------------------------------
(* Properties *)

Completed(q) == q \in Range(progress.completed)

\* C1: every completed question has a score and an evaluation record, in
\* every reachable state of a session.
C1_CompletedHasScoreAndEvaluation ==
    \A q \in QuestionIds :
        Completed(q) =>
            q \in DOMAIN progress.scores /\ q \in DOMAIN progress.evaluations

\* Both questions of the session are completed, and the page re-rendered.
C1_Witness ==
    /\ last.op = "render"
    /\ Len(progress.completed) = 2
    /\ \A q \in ActiveIds : Completed(q)

\* C2: when "Reset This Question" has run clear_question_data(q), the
\* progress holds no answer, transcript, score, evaluation or completed mark
\* of q, q is not attempted, and the summary counts only the other questions.
C2_ClearRemovesAllFields ==
    (last.op = "reset" /\ rerun) =>
        LET q == last.q
        IN /\ q \notin DOMAIN progress.answers
           /\ q \notin DOMAIN progress.transcripts
           /\ q \notin DOMAIN progress.scores
           /\ q \notin DOMAIN progress.evaluations
           /\ ~Completed(q)
           /\ StatusOf(progress, q) = "NotAttempted"
           /\ Summary(progress).attempted
                = Cardinality(DOMAIN progress.answers \ {q})
           /\ Summary(progress).completed
                = Cardinality(Range(progress.completed) \ {q})

\* An evaluated question has just been reset.
C2_Witness == last.op = "reset" /\ rerun /\ last.was = "Evaluated"

\* C3: when "Reset All Progress" has run, the progress mapping is empty and
\* the summary is 0 completed, 0 attempted, average score 0.
C3_ResetAllEmpties ==
    last.op = "reset_all" =>
        /\ progress = EmptyProgress
        /\ Summary(progress)
             = [completed |-> 0, attempted |-> 0,
                averageScore |-> [num |-> 0, den |-> 1]]

\* A session with an evaluated question has just been reset.
C3_Witness == last.op = "reset_all" /\ last.was = "Evaluated"

\* C4: a run of "Evaluate Answer" leaves the question with the score and the
\* evaluation that this run's evaluate_with_gpt returned and with one entry
\* in the completed list, and it does not lengthen the list when the question
\* was completed before.
C4_ReEvaluationKeepsOneScore ==
    [][\A o \in EvalOutcomes, u \in SessionEntropy :
         (last'.op = "evaluate" /\ Evaluate(o, u)) =>
            LET q == selected
                latest == evaluate_with_gpt(api_configured, QuestionOf(q),
                                            session.text_answer[q], o, u)
            IN /\ progress'.evaluations[q].feedback = latest
               /\ progress'.evaluations[q].overall_score
                    = progress'.evaluations[q].feedback.score
               /\ progress'.scores[q] = progress'.evaluations[q].feedback.score
               /\ Count(progress'.completed, q) = 1
               /\ DOMAIN progress'.scores = DOMAIN progress.scores \cup {q}
               /\ Completed(q) => progress'.completed = progress.completed]_vars

\* An evaluated question has just been evaluated again, with another score.
C4_Witness ==
    /\ last.op = "evaluate" /\ last.was = "Evaluated" /\ last.diff
    /\ Count(progress.completed, last.q) = 1

\* C5: every stored score is an integer of 0..100.
C5_ScoresInRange ==
    \A q \in DOMAIN progress.scores : progress.scores[q] \in 0..100

DifficultyRange(difficulty) ==
    CASE difficulty = "Easy" -> 70..90
      [] difficulty = "Medium" -> 60..80
      [] difficulty = "Hard" -> 50..70

\* The result came from get_demo_feedback: called as such, or by
\* evaluate_with_gpt with no service configured or a call that raised.
FromDemo ==
    /\ result.done
    /\ \/ last.op = "get_demo_feedback"
       \/ ~api_configured
       \/ Raises(resp)

\* C6: the score of get_demo_feedback is inside the range of the question's
\* difficulty, for every question and every draw.
C6_DemoScoreInDifficultyRange ==
    FromDemo =>
        result.value.score \in DifficultyRange(QuestionOf(selected).difficulty)

\* A Hard question got the top of its range, an Easy one the bottom of its.
C6_Witness ==
    /\ FromDemo /\ last.op = "get_demo_feedback"
    /\ QuestionOf(selected).difficulty = "Hard"
    /\ result.value.score = 70

\* The lines of the response that carry a label, in order, as table rows
RECURSIVE LastRow(_, _)
LastRow(lines, table) ==
    IF lines = <<>> THEN {}
    ELSE LET l == lines[Len(lines)]
         IN IF l \in Raws(table) THEN {r \in table : r.raw = l}
            ELSE LastRow(SubSeq(lines, 1, Len(lines) - 1), table)

LiveParsed ==
    result.done /\ last.op = "evaluate_with_gpt" /\ api_configured
      /\ resp.kind = "text"

\* C7: in the live path each field of the result is decided by the last line
\* of its own label alone: the score is that line's number, and 50 when there
\* is no SCORE: line or it holds no number; strengths and improvements are
\* that line's items, and the fixed non-empty defaults when the line is
\* missing or empty.
C7_FieldsDegradeIndependently ==
    LiveParsed =>
        LET sc == LastRow(resp.lines, ScoreLines)
            st == LastRow(resp.lines, StrengthLines)
            im == LastRow(resp.lines, ImprovementLines)
            v == result.value
        IN /\ sc = {} => v.score = DefaultScore
           /\ \A r \in sc : v.score = r.score
           /\ st = {} => v.strengths = DefaultStrengths
           /\ \A r \in st : v.strengths = r.items
           /\ im = {} => v.improvements = DefaultImprovements
           /\ \A r \in im : v.improvements = r.items
           /\ v.strengths # <<>> /\ v.improvements # <<>>

\* A response whose score holds no number and whose strengths are well
\* formed: the score is 50 and the strengths are the parsed ones.
C7_Witness ==
    /\ LiveParsed
    /\ resp.lines = << <<"STRENGTHS:", WS, "clear", ",", WS, "deep">>,
                       <<"SCORE:", WS, "8", "5", "/100">> >>
    /\ result.value.score = DefaultScore
    /\ result.value.strengths = <<<<"clear">>, <<"deep">>>>
    /\ result.value.improvements = DefaultImprovements

\* C8: with no live service configured, on the practice page of question 2,
\* the recorder is offered (the first step of the scenario).
C8_DemoModeOffersRecorder ==
    (~api_configured /\ OnPractice /\ selected = 2) => ENABLED StartRecording

\* C9: a step changes the state of a question only from NotAttempted to
\* Recorded, from Recorded to Evaluated, or, by a reset of the question or of
\* all progress, to NotAttempted.
C9_OnlyLifecycleTransitions ==
    [][\A q \in QuestionIds :
         LET a == StatusOf(progress, q)
             b == StatusOf(progress', q)
         IN \/ a = b
            \/ a = "NotAttempted" /\ b = "Recorded"
            \/ a = "Recorded" /\ b = "Evaluated"
            \/ /\ b = "NotAttempted"
               /\ \/ last'.op = "reset" /\ last'.q = q
                  \/ last'.op = "reset_all"]_vars

\* A recorded question has just been evaluated.
C9_Witness ==
    /\ last.op = "evaluate" /\ last.was = "Recorded"
    /\ StatusOf(progress, last.q) = "Evaluated"

\* C10: a run of "Transcribe Audio" on an evaluated question changes no part
\* of the progress but the question's answer: its score, its evaluation and
\* the completed list stay.
C10_RetranscriptionKeepsEvaluation ==
    [][\A o \in TranscribeOutcomes, u \in SessionEntropy :
         (last'.op = "transcribe" /\ selected \in DOMAIN progress.scores
            /\ Transcribe(o, u)) =>
            LET q == selected
            IN /\ progress'.scores = progress.scores
               /\ progress'.evaluations = progress.evaluations
               /\ progress'.completed = progress.completed
               /\ progress'.transcripts = progress.transcripts
               /\ \A k \in DOMAIN progress.answers \ {q} :
                     k \in DOMAIN progress'.answers
                       /\ progress'.answers[k] = progress.answers[k]
               /\ DOMAIN progress'.answers = DOMAIN progress.answers \cup {q}]_vars

\* An evaluated question has just got another answer: the score and the
\* evaluation are those of the answer before.
C10_Witness ==
    /\ last.op = "transcribe" /\ last.was = "Evaluated" /\ last.diff
    /\ last.q \in DOMAIN progress.scores
    /\ last.q \in DOMAIN progress.evaluations
    /\ Completed(last.q)

\* What a dict holds under a key: one value, or nothing
Field(d, k) == IF k \in DOMAIN d THEN {d[k]} ELSE {}

\* The progress fields of a question
ProgressOf(p, k) ==
    [answer |-> Field(p.answers, k), score |-> Field(p.scores, k),
     evaluation |-> Field(p.evaluations, k),
     transcript |-> Field(p.transcripts, k),
     completed |-> Count(p.completed, k)]

\* The session keys of a question
SessionKeysOf(s, k) ==
    [audio_transcript |-> Field(s.audio_transcript, k),
     text_answer |-> Field(s.text_answer, k),
     last_audio |-> Field(s.last_audio, k),
     recording_active |-> Field(s.recording_active, k),
     record_count |-> Field(s.record_count, k)]

\* C11: a run of "Reset This Question" on question q leaves every other
\* question's progress fields and session keys as they were.
C11_ResetLeavesOtherQuestions ==
    [][ResetQuestion =>
         \A k \in QuestionIds \ {selected} :
            /\ ProgressOf(progress', k) = ProgressOf(progress, k)
            /\ SessionKeysOf(session', k) = SessionKeysOf(session, k)]_vars

\* The demo transcripts of a question of the bank
DemoTranscriptsOf(q) == Range(QuestionOf(q).demo_transcripts)

CallFails == [kind |-> "raise", text |-> <<>>]

\* C12: when the live speech-to-text call fails, or the audio holds no
\* bytes, transcribe_audio returns a demo transcript of the question, and the
\* run of "Transcribe Audio" stores it as the question's answer and as the
\* text to evaluate, and re-runs the script: the question is attempted.
C12_FailedTranscriptionFallsBack ==
    [][\A u \in SessionEntropy :
         (last'.op = "transcribe" /\ Transcribe(CallFails, u)) =>
                LET q == selected
                    t == transcribe_audio(api_configured, "audio", q,
                                          CallFails, u)
                IN /\ \A k \in QuestionIds, o \in TranscribeOutcomes :
                         transcribe_audio(TRUE, "None", k, o, u)
                           \in DemoTranscriptsOf(k)
                   /\ t \in DemoTranscriptsOf(q)
                   /\ q \in DOMAIN progress'.answers
                   /\ progress'.answers[q] = t
                   /\ session'.text_answer[q] = t
                   /\ session'.audio_transcript[q] = t
                   /\ StatusOf(progress', q) # "NotAttempted"
                   /\ rerun']_vars

\* A question that had no answer holds a demo transcript after a failed call
\* of the live service.
C12_Witness ==
    /\ api_configured
    /\ last.op = "transcribe" /\ last.was = "NotAttempted" /\ rerun
    /\ progress.answers[last.q] \in DemoTranscriptsOf(last.q)
    /\ StatusOf(progress, last.q) = "Recorded"

EvalFails == [kind |-> "raise", lines |-> <<>>]

\* C13: when the live evaluation call raises, evaluate_with_gpt returns
\* get_demo_feedback of the question, and the run of "Evaluate Answer"
\* records that result's score and evaluation and marks the question
\* completed.
C13_FailedEvaluationFallsBack ==
    [][\A u \in SessionEntropy :
         (api_configured /\ last'.op = "evaluate" /\ Evaluate(EvalFails, u)) =>
            LET q == selected
                demo == get_demo_feedback(QuestionOf(q), u)
            IN /\ evaluate_with_gpt(TRUE, QuestionOf(q), session.text_answer[q],
                                    EvalFails, u) = demo
               /\ q \in DOMAIN progress'.scores
               /\ progress'.scores[q] = demo.score
               /\ progress'.evaluations[q].feedback = demo
               /\ Count(progress'.completed, q) = 1
               /\ StatusOf(progress', q) = "Evaluated"
               /\ rerun']_vars

\* A recorded question of a configured session holds a demo result after a
\* failed call of the live service.
C13_Witness ==
    /\ api_configured
    /\ last.op = "evaluate" /\ last.was = "Recorded" /\ rerun
    /\ last.q \in DOMAIN progress.evaluations
    /\ progress.evaluations[last.q].feedback.strengths
         = get_demo_feedback(QuestionOf(last.q), 0).strengths
    /\ progress.scores[last.q]
         \in DifficultyRange(QuestionOf(last.q).difficulty)
    /\ Completed(last.q)

-----------------------------------------------------------------------------
(* The transcription check: transcribe_audio called on every question of    *)
(* the bank, with and without a live service, audio bytes and a failing     *)
(* call, for every draw.                                                    *)

AudioInputs == {"None", "audio"}

TranscribeInit ==
    /\ progress = EmptyProgress
    /\ page = "practice"
    /\ rerun = FALSE
    /\ last = Op("start", 0, "NotAttempted", FALSE)
    /\ recordings = 0
    /\ other = 2
    /\ result = [done |-> FALSE, value |-> <<>>, temp_files |-> {}]
    /\ resp \in {CallFails, [kind |-> "text", text |-> <<"my answer">>]}
    /\ selected \in QuestionIds
    /\ draw \in Entropy
    /\ api_configured \in BOOLEAN
    /\ \E audio \in AudioInputs :
          session = [EmptySession EXCEPT !.last_audio = Put(@, selected, audio)]

CallTranscribe ==
    /\ ~result.done
    /\ result' = [done |-> TRUE,
                  value |-> transcribe_audio(api_configured,
                                             session.last_audio[selected],
                                             selected, resp, draw),
                  temp_files |-> TempFilesLeft(api_configured,
                                               session.last_audio[selected],
                                               resp)]
    /\ last' = Op("transcribe_audio", selected, "NotAttempted", FALSE)
    /\ UNCHANGED <<progress, session, api_configured, page, selected, rerun,
                   recordings, other, resp, draw>>

TranscribeNext == CallTranscribe

TranscribeSpec == TranscribeInit /\ [][TranscribeNext]_vars

\* C14: with no live service configured, transcribe_audio returns, for every
\* question of the bank and every draw, one of the question's own demo
\* transcripts when it has any and the generic sentence of its category when
\* it has none, and never a demo transcript of another question.
C14_DemoTranscriptIsOwn ==
    (result.done /\ last.op = "transcribe_audio" /\ ~api_configured) =>
        LET q == QuestionOf(selected)
        IN /\ q.demo_transcripts # <<>> =>
                 result.value \in Range(q.demo_transcripts)
           /\ q.demo_transcripts = <<>> =>
                 result.value = GenericTranscript(q.category)
           /\ \A k \in QuestionIds \ {selected} :
                 result.value \notin DemoTranscriptsOf(k)

\* Question 10 got the second of its two transcripts, with audio at hand.
C14_Witness ==
    /\ result.done /\ last.op = "transcribe_audio" /\ ~api_configured
    /\ selected = 10 /\ session.last_audio[selected] = "audio"
    /\ result.value = QuestionOf(10).demo_transcripts[2]

\* The mean of the scores of the questions of a set, 0 for no question
MeanOver(scores, K) ==
    IF K = {} THEN [num |-> 0, den |-> 1]
    ELSE [num |-> SumOver(scores, K), den |-> Cardinality(K)]

\* C15: in every state the summary of the dashboard is the number of entries
\* of progress['completed'] (each a different question), the number of keys
\* of progress['answers'], and the mean of the scores of the completed
\* questions, 0 when there is none; the sidebar shows the same counts, and
\* the same mean whenever it shows one, which is when there is a score.
C15_SummaryCountsAndMean ==
    LET done == Range(progress.completed)
    IN /\ DOMAIN progress.scores = done
       /\ Summary(progress).completed = Cardinality(done)
       /\ Summary(progress).completed = Len(progress.completed)
       /\ Summary(progress).attempted = Cardinality(DOMAIN progress.answers)
       /\ Summary(progress).averageScore = MeanOver(progress.scores, done)
       /\ SidebarStats(progress).completed = Summary(progress).completed
       /\ SidebarStats(progress).attempted = Summary(progress).attempted
       /\ SidebarStats(progress).averageScore
            \subseteq {MeanOver(progress.scores, done)}
       /\ SidebarStats(progress).averageScore = {} <=> done = {}

\* One question is evaluated and the other is recorded only: two attempted,
\* one completed, and the average is the one score.
C15_Witness ==
    /\ last.op = "render"
    /\ Summary(progress).attempted = 2
    /\ Summary(progress).completed = 1
    /\ \E q \in ActiveIds :
          /\ q \in DOMAIN progress.scores
          /\ Summary(progress).averageScore
               = [num |-> progress.scores[q], den |-> 1]

-----------------------------------------------------------------------------
(* generate_pdf: the content of the report, as the cells it writes.  In the *)
(* report check a text is a sequence of characters.                         *)

\* answer[:400]
TruncateAt == 400

\* The clock's readings, in seconds: datetime.now() of a build.
MaxClock == 1

Clock == 0..MaxClock

\* answer[:400] + "..." if len(answer) > 400 else answer
Truncate(answer) ==
    IF Len(answer) > TruncateAt
    THEN SubSeq(answer, 1, TruncateAt) \o <<".", ".", ".">>
    ELSE answer

MaxOf(S) == CHOOSE x \in S : \A y \in S : y <= x

MinOf(S) == CHOOSE x \in S : \A y \in S : x <= y

\* int(qid) of a key, from its decimal digits
RECURSIVE DigitsInt(_, _)
DigitsInt(d, acc) ==
    IF d = <<>> THEN acc ELSE DigitsInt(Tail(d), 10 * acc + Head(d))

KeyInt(k) == DigitsInt(Str(k), 0)

\* The order of str on decimal keys
RECURSIVE LexLeq(_, _)
LexLeq(a, b) ==
    IF a = <<>> THEN TRUE
    ELSE IF b = <<>> THEN FALSE
    ELSE IF Head(a) < Head(b) THEN TRUE
    ELSE IF Head(a) > Head(b) THEN FALSE
    ELSE LexLeq(Tail(a), Tail(b))

\* Mutant of SortedKeys: sorted(keys) without key=int.
RECURSIVE SortedKeys_as_text(_)
SortedKeys_as_text(K) ==
    IF K = {} THEN <<>>
    ELSE LET m == CHOOSE x \in K : \A y \in K : LexLeq(Str(x), Str(y))
         IN <<m>> \o SortedKeys_as_text(K \ {m})

\* sorted(keys, key=int)
RECURSIVE SortedKeys(_)
SortedKeys(K) ==
    IF K = {} THEN <<>>
    ELSE LET m == CHOOSE x \in K : \A y \in K : KeyInt(x) <= KeyInt(y)
         IN <<m>> \o SortedKeys(K \ {m})

\* Mutant of ReportBlock: a score is shown for every question that has one
\* in progress['scores'] or not, 0 by default.
ReportBlock_always_score(p, qid) ==
    LET question == QUESTIONS[KeyInt(qid)]
        evaluated == qid \in Range(p.completed)
    IN [qid |-> qid,
        question |-> question.id,
        score |-> {Get(p.scores, qid, 0)},
        status |-> IF evaluated THEN {} ELSE {"Recorded (Not evaluated)"},
        category |-> {question.category},
        difficulty |-> IF evaluated THEN {question.difficulty} ELSE {},
        answer |-> Truncate(p.answers[qid])]

\* The cells of one question: the heading "Question <qid>: <text>" (the text
\* is named by the question's id), the status line, and the answer.  A field
\* that the line does not carry is the empty set.
ReportBlock(p, qid) ==
    LET question == QUESTIONS[KeyInt(qid)]
        evaluated == qid \in Range(p.completed)
    IN [qid |-> qid,
        question |-> question.id,
        score |-> IF evaluated THEN {Get(p.scores, qid, 0)} ELSE {},
        status |-> IF evaluated THEN {} ELSE {"Recorded (Not evaluated)"},
        category |-> {question.category},
        difficulty |-> IF evaluated THEN {question.difficulty} ELSE {},
        answer |-> Truncate(p.answers[qid])]

ReportBlocks(p) ==
    LET order == SortedKeys(DOMAIN p.answers)
    IN [i \in DOMAIN order |-> ReportBlock(p, order[i])]

\* "Progress Summary": the score lines are there only when there is a score.
ReportSummary(p) ==
    [total |-> Len(QUESTIONS),
     attempted |-> Cardinality(DOMAIN p.answers),
     completed |-> Len(p.completed),
     scores |-> IF DOMAIN p.scores # {}
                THEN {[average |-> AverageScore(p),
                       highest |-> MaxOf({p.scores[k] : k \in DOMAIN p.scores}),
                       lowest |-> MinOf({p.scores[k] : k \in DOMAIN p.scores})]}
                ELSE {}]

\* "Attempted Questions" of the report page's preview: one line per answer
PreviewLine(p, qid) ==
    LET evaluated == qid \in Range(p.completed)
    IN [qid |-> qid,
        question |-> QUESTIONS[KeyInt(qid)].id,
        status |-> IF evaluated THEN "Evaluated" ELSE "Recorded",
        score |-> IF evaluated THEN {Get(p.scores, qid, 0)} ELSE {}]

ReportPreview(p) ==
    LET order == SortedKeys(DOMAIN p.answers)
    IN [i \in DOMAIN order |-> PreviewLine(p, order[i])]

\* range(0, 100, 20)
RangeStarts == {0, 20, 40, 60, 80}

\* The count of one line of "Score Distribution": the scores of
\* [range_start, range_start + 20), and for the line that ends at 100 the
\* scores from 90 up.
BucketCount(scores, range_start) ==
    LET range_end == range_start + 20
    IN IF range_end = 100
       THEN Cardinality({k \in DOMAIN scores : scores[k] >= 90})
       ELSE Cardinality({k \in DOMAIN scores :
                           range_start <= scores[k] /\ scores[k] < range_end})

\* The lines of the distribution; the page shows them when there is a score.
ScoreDistribution(p) == [b \in RangeStarts |-> BucketCount(p.scores, b)]

\* generate_pdf(), built at the clock's reading `now`
generate_pdf(p, configured, now) ==
    [title |-> "Tech Interview Practice Report",
     generated |-> now,
     mode |-> IF ~configured THEN "Demo Mode" ELSE "Real AI Mode",
     summary |-> ReportSummary(p),
     blocks |-> ReportBlocks(p),
     footer |-> "Generated by Tech Interview Practice Platform"]

-----------------------------------------------------------------------------
(* The report check: generate_pdf called on progress mappings over three    *)
(* questions, each not attempted, recorded or evaluated, with answers of    *)
(* fewer, exactly and more than 400 characters, in both modes and at every  *)
(* reading of the clock.                                                    *)

ReportIds == {1, 2, 10}

\* A text of n characters whose characters after the first 400 differ
TextOfLen(n) == [i \in 1..n |-> IF i <= TruncateAt THEN "a" ELSE "b"]

ReportAnswers == {TextOfLen(2), TextOfLen(TruncateAt), TextOfLen(TruncateAt + 1)}

ReportScores == {0, 85}

ReportEntries ==
    {[has |-> FALSE, answer |-> <<>>, score |-> {}]}
      \cup {[has |-> TRUE, answer |-> a, score |-> {}] : a \in ReportAnswers}
      \cup {[has |-> TRUE, answer |-> a, score |-> {n}] :
              a \in ReportAnswers, n \in ReportScores}

\* The progress that the entries describe: answers for the attempted
\* questions, and what the evaluate handler leaves for the evaluated ones.
ReportProgress(e) ==
    LET attempted == {k \in DOMAIN e : e[k].has}
        evaluated == {k \in attempted : e[k].score # {}}
        scoreOf(k) == CHOOSE n \in e[k].score : TRUE
    IN [completed |-> SortedKeys(evaluated),
        scores |-> [k \in evaluated |-> scoreOf(k)],
        answers |-> [k \in attempted |-> e[k].answer],
        transcripts |-> EmptyDict,
        evaluations |->
            [k \in evaluated |->
                [overall_score |-> scoreOf(k),
                 word_count |-> 1,
                 feedback |-> [FillDefaults(InitialResult)
                                 EXCEPT !.score = scoreOf(k)]]]]

ReportInit ==
    /\ \E e \in [ReportIds -> ReportEntries] : progress = ReportProgress(e)
    /\ api_configured \in BOOLEAN
    /\ session = EmptySession
    /\ page = "report"
    /\ selected = QUESTIONS[1].id
    /\ rerun = FALSE
    /\ last = Op("start", 0, "NotAttempted", FALSE)
    /\ recordings = 0
    /\ other = 2
    /\ resp = EvalFails
    /\ draw = 0
    /\ result = [done |-> FALSE, value |-> <<>>]

\* "Generate & Download PDF Report"; the page offers it once there is an
\* answer.
GenerateReport(now) ==
    /\ ~result.done
    /\ DOMAIN progress.answers # {}
    /\ result' = [done |-> TRUE,
                  value |-> generate_pdf(progress, api_configured, now)]
    /\ draw' = now
    /\ last' = Op("generate_pdf", 0, SessionStatus(progress), FALSE)
    /\ UNCHANGED <<progress, session, api_configured, page, selected, rerun,
                   recordings, other, resp>>

ReportNext == \E now \in Clock : GenerateReport(now)

ReportSpec == ReportInit /\ [][ReportNext]_vars

Built == result.done /\ last.op = "generate_pdf"

Blocks == result.value.blocks

\* C16: the report has one block for each key of progress['answers'] and no
\* other, in ascending order of the keys as numbers, and the answer of a
\* block is the stored answer when it has at most 400 characters and its
\* first 400 characters followed by "..." otherwise.
C16_OneBlockPerAttemptedInOrder ==
    Built =>
        /\ {Blocks[i].qid : i \in DOMAIN Blocks} = DOMAIN progress.answers
        /\ Len(Blocks) = Cardinality(DOMAIN progress.answers)
        /\ \A i, j \in DOMAIN Blocks : i < j => Blocks[i].qid < Blocks[j].qid
        /\ \A i \in DOMAIN Blocks :
              LET answer == progress.answers[Blocks[i].qid]
              IN IF Len(answer) <= TruncateAt
                 THEN Blocks[i].answer = answer
                 ELSE /\ Len(Blocks[i].answer) = TruncateAt + 3
                      /\ \A n \in 1..TruncateAt : Blocks[i].answer[n] = answer[n]
                      /\ \A n \in 1..3 : Blocks[i].answer[TruncateAt + n] = "."

\* Questions 2 and 10 are attempted, with an answer of 400 characters and one
\* of 401: two blocks, 2 before 10, the second cut.
C16_Witness ==
    /\ Built
    /\ DOMAIN progress.answers = {2, 10}
    /\ Len(progress.answers[2]) = TruncateAt
    /\ Len(progress.answers[10]) = TruncateAt + 1
    /\ Blocks[1].qid = 2 /\ Blocks[1].answer = progress.answers[2]
    /\ Blocks[2].qid = 10 /\ Len(Blocks[2].answer) = TruncateAt + 3

\* C17: every block of the report carries the question's id, its text, its
\* category and its difficulty, whether the question is evaluated or not.
C17_EveryBlockHasDifficulty ==
    Built =>
        \A i \in DOMAIN Blocks :
            LET question == QuestionOf(Blocks[i].qid)
            IN /\ Blocks[i].qid \in DOMAIN progress.answers
               /\ Blocks[i].question = question.id
               /\ Blocks[i].category = {question.category}
               /\ Blocks[i].difficulty = {question.difficulty}

\* C18: the block of an attempted question that is not in
\* progress['completed'] shows the status "not evaluated" and no score, and
\* a block, like a line of the page's preview, shows a score exactly when
\* the question is in progress['completed']: the stored one.
C18_ScoreShownIffCompleted ==
    Built =>
        \A i \in DOMAIN Blocks :
            LET qid == Blocks[i].qid
                line == ReportPreview(progress)[i]
            IN /\ line.qid = qid
               /\ IF qid \in Range(progress.completed)
                  THEN /\ Blocks[i].score = {progress.scores[qid]}
                       /\ Blocks[i].status = {}
                       /\ line.score = {progress.scores[qid]}
                       /\ line.status = "Evaluated"
                  ELSE /\ Blocks[i].score = {}
                       /\ Blocks[i].status = {"Recorded (Not evaluated)"}
                       /\ line.score = {}
                       /\ line.status = "Recorded"

\* The report of a progress with one attempted, non-evaluated question.
C18_Witness ==
    /\ Built
    /\ DOMAIN progress.answers = {2}
    /\ progress.completed = <<>>
    /\ Len(Blocks) = 1
    /\ Blocks[1].status = {"Recorded (Not evaluated)"}
    /\ Blocks[1].score = {}

\* C19: a build of the report over the same progress and the same bank, at
\* any reading of the clock and in either mode, gives the content of the
\* build at hand.
C19_ReportDependsOnProgressOnly ==
    Built =>
        \A configured \in BOOLEAN, now \in Clock :
            generate_pdf(progress, configured, now) = result.value

\* final_answer of a run of the practice page: the text to evaluate
FinalAnswer ==
    Get(RenderPractice(progress, session, api_configured, selected).s.text_answer,
        selected, <<>>)

NonBlank(t) == \E i \in DOMAIN t : t[i] # WS

\* C20: "Evaluate Answer" is offered only for a text that is not empty after
\* stripping whitespace, and every run of it hands such a text to
\* evaluate_with_gpt and records the score with that text as the answer.
C20_EvaluateNeedsNonBlankAnswer ==
    [][/\ (OnPractice /\ CanEvaluate(FinalAnswer)) => NonBlank(FinalAnswer)
       /\ \A o \in EvalOutcomes, u \in SessionEntropy :
             (last'.op = "evaluate" /\ Evaluate(o, u)) =>
                /\ NonBlank(FinalAnswer)
                /\ progress'.answers[selected] = FinalAnswer
                /\ progress'.evaluations[selected].word_count >= 1]_vars

\* The answer of the question is one space: it is attempted, and the page
\* does not offer its evaluation.
C20_Witness ==
    /\ OnPractice /\ last.op = "render"
    /\ selected \in DOMAIN progress.answers
    /\ progress.answers[selected] = <<WS>>
    /\ FinalAnswer = <<WS>>
    /\ ~ENABLED Evaluate(EvalFails, 0)

\* evaluate_with_gpt has returned for the answer of the evaluation check
Evaluated == result.done /\ last.op = "evaluate_with_gpt"

\* C21: evaluate_with_gpt called with an empty or whitespace-only answer
\* returns a result that holds no score, with and without a live service.
C21_BlankAnswerGetsNoScore ==
    (Evaluated /\ ~NonBlank(session.text_answer[selected])) =>
        "score" \notin DOMAIN result.value

\* C22: in every state a question has an evaluation in the progress only if
\* it is completed.
C22_EvaluationsOnlyForCompleted ==
    \A q \in DOMAIN progress.evaluations : Completed(q)

\* C23: in every state the keys of progress['scores'] are the elements of
\* progress['completed'], no id is twice in progress['completed'], and every
\* completed question has an answer; hence completed <= attempted <= 10.
C23_ScoresCompletedAnswersAgree ==
    /\ DOMAIN progress.scores = Range(progress.completed)
    /\ \A i, j \in DOMAIN progress.completed :
          progress.completed[i] = progress.completed[j] => i = j
    /\ Range(progress.completed) \subseteq DOMAIN progress.answers
    /\ Len(progress.completed) <= Cardinality(DOMAIN progress.answers)
    /\ Cardinality(DOMAIN progress.answers) <= Len(QUESTIONS)

\* Both questions of the session are completed, one of them evaluated twice,
\* and the script has re-run.
C23_Witness ==
    /\ last.op = "evaluate" /\ last.was = "Evaluated"
    /\ Len(progress.completed) = 2
    /\ DOMAIN progress.scores = ActiveIds
    /\ DOMAIN progress.answers = ActiveIds

C25_NoTempFileOutlivesCall ==
    (result.done /\ last.op = "transcribe_audio") => result.temp_files = {}

\* C26: after a run of "Evaluate Answer" the dashboard's "Last Score" is the
\* score that this run recorded, whichever questions were evaluated before.
C26_LastScoreIsLatestEvaluation ==
    last.op = "evaluate" =>
        LastScore(progress) = [label |-> "Last Score",
                               score |-> {progress.scores[last.q]}]

\* C27: the counts of the five lines of the score distribution add up to the
\* number of scored questions, when every score is in 0..100.
C27_BucketsCountEveryScore ==
    (\A k \in DOMAIN progress.scores : progress.scores[k] \in 0..100) =>
        SumValues(ScoreDistribution(progress))
          = Cardinality(DOMAIN progress.scores)

\* The recorder of a question is active while its audio is at hand
ActiveWithAudio(s, q) ==
    /\ q \in DOMAIN s.recording_active /\ s.recording_active[q]
    /\ q \in DOMAIN s.last_audio /\ s.last_audio[q] # "None"

\* C28: for every question, recording_active is never true while last_audio
\* holds audio; record_count never decreases, and its key goes only by a
\* reset; and "Start Recording" and "Re-record" raise it, so the widget key
\* audio_recorder_<q>_<n> of the new recording was not used since the reset.
C28_RecorderStateIsConsistent ==
    [][\A q \in QuestionIds :
         /\ ~ActiveWithAudio(session, q) /\ ~ActiveWithAudio(session', q)
         /\ q \in DOMAIN session.record_count =>
               IF q \in DOMAIN session'.record_count
               THEN session'.record_count[q] >= session.record_count[q]
               ELSE last'.op \in {"reset", "reset_all"}
         /\ (last'.op \in {"start_recording", "rerecord"} /\ last'.q = q) =>
               /\ session'.record_count[q] = Get(session.record_count, q, 0) + 1
               /\ session'.recording_active[q]
               /\ session'.last_audio[q] = "None"]_vars

\* A second recording of a question has just been started by "Re-record":
\* its count is 2, the recorder is active and the first audio is gone.
C28_Witness ==
    /\ last.op = "rerecord"
    /\ session.record_count[last.q] = 2
    /\ session.recording_active[last.q]
    /\ session.last_audio[last.q] = "None"

=============================================================================
